---- MODULE Spec2Model ----
(***************************************************************************)
(* The todo API of src/server.js: an in-memory array of todo records and   *)
(* the five routes that read and mutate it, with the express-validator     *)
(* chain and the error handler that run before POST and PUT.               *)
(*                                                                         *)
(* Strings are sequences of one-character strings, so that lengths,        *)
(* parseInt and the ISO-8601 format check are computed on the characters.  *)
(* The request logger (src/server.js:48-57) only writes to the console and *)
(* always calls next(); it touches none of the state below.                *)
(***************************************************************************)
EXTENDS Integers, Sequences, FiniteSets, TLC

\* The largest number of records the store is allowed to grow to.
MaxTodos == 5

(***************************************************************************)
(* JavaScript values as they arrive in a parsed JSON body.  Every value    *)
(* has the same record shape; k is the type tag.  An array holds strings.  *)
(***************************************************************************)
Undefined == [k |-> "undefined", s |-> <<>>, n |-> 0, b |-> FALSE, a |-> <<>>]
Str(s) == [k |-> "string", s |-> s, n |-> 0, b |-> FALSE, a |-> <<>>]
Num(n) == [k |-> "number", s |-> <<>>, n |-> n, b |-> FALSE, a |-> <<>>]
Bool(b) == [k |-> "boolean", s |-> <<>>, n |-> 0, b |-> b, a |-> <<>>]
Arr(a) == [k |-> "array", s |-> <<>>, n |-> 0, b |-> FALSE, a |-> a]

DigitChars == <<"0","1","2","3","4","5","6","7","8","9">>
HexChars == <<"0","1","2","3","4","5","6","7","8","9","a","b","c","d","e","f">>
UpperHexChars == <<"0","1","2","3","4","5","6","7","8","9","A","B","C","D","E","F">>

IsDigit(c) == \E i \in 1..10 : DigitChars[i] = c

\* The value of character c as a digit of the given radix, -1 when it is none.
DigitValue(c, radix) ==
    IF \E i \in 1..radix : HexChars[i] = c \/ UpperHexChars[i] = c
    THEN (CHOOSE i \in 1..radix : HexChars[i] = c \/ UpperHexChars[i] = c) - 1
    ELSE -1

\* String(n) for a non-negative integer n.
RECURSIVE NumberToString(_)
NumberToString(n) ==
    IF n < 10 THEN <<DigitChars[n + 1]>>
    ELSE NumberToString(n \div 10) \o <<DigitChars[(n % 10) + 1]>>

(***************************************************************************)
(* parseInt(string) with no radix argument: leading white space is         *)
(* skipped, a sign is read, a 0x/0X prefix selects radix 16, and the       *)
(* longest prefix of digits is converted; what follows it is ignored.      *)
(* With no digit at all the result is NaN.                                 *)
(***************************************************************************)
NaN == [nan |-> TRUE, n |-> 0]

RECURSIVE SkipWhiteSpace(_)
SkipWhiteSpace(s) ==
    IF s # <<>> /\ s[1] = " " THEN SkipWhiteSpace(Tail(s)) ELSE s

RECURSIVE DigitPrefixLen(_, _)
DigitPrefixLen(s, radix) ==
    IF s # <<>> /\ DigitValue(s[1], radix) >= 0
    THEN 1 + DigitPrefixLen(Tail(s), radix)
    ELSE 0

RECURSIVE DigitsToNumber(_, _, _)
DigitsToNumber(s, radix, acc) ==
    IF s = <<>> THEN acc
    ELSE DigitsToNumber(Tail(s), radix, acc * radix + DigitValue(s[1], radix))

parseInt(str) ==
    LET t == SkipWhiteSpace(str)
        signed == t # <<>> /\ t[1] \in {"+", "-"}
        sign == IF t # <<>> /\ t[1] = "-" THEN -1 ELSE 1
        u == IF signed THEN Tail(t) ELSE t
        hex == Len(u) >= 2 /\ u[1] = "0" /\ u[2] \in {"x", "X"}
        radix == IF hex THEN 16 ELSE 10
        v == IF hex THEN SubSeq(u, 3, Len(u)) ELSE u
        len == DigitPrefixLen(v, radix)
    IN  IF len = 0 THEN NaN
        ELSE [nan |-> FALSE, n |-> sign * DigitsToNumber(SubSeq(v, 1, len), radix, 0)]

(***************************************************************************)
(* express-validator.  A standard validator is applied to the string form  *)
(* of the field (toString); when the field is an array it is applied to    *)
(* each element in turn, and every failing element adds one error with     *)
(* the chain's message.  isArray is a custom validator on the whole value. *)
(***************************************************************************)
toString(v) ==
    CASE v.k = "string" -> v.s
      [] v.k = "number" -> NumberToString(v.n)
      [] v.k = "boolean" -> IF v.b THEN <<"t","r","u","e">> ELSE <<"f","a","l","s","e">>
      [] v.k = "array" -> IF v.a = <<>> THEN <<>> ELSE v.a[1]
      [] OTHER -> <<>>

isLength(str, min) == Len(str) >= min

isIn(str, values) == \E i \in 1..Len(values) : values[i] = str

\* The two-digit number written at positions i, i+1 of str, -1 if not digits.
TwoDigits(str, i) ==
    IF IsDigit(str[i]) /\ IsDigit(str[i + 1])
    THEN 10 * DigitValue(str[i], 10) + DigitValue(str[i + 1], 10)
    ELSE -1

(***************************************************************************)
(* isISO8601 without the strict option is a format check only.  This is    *)
(* its calendar-date part with hyphens: YYYY, YYYY-MM and YYYY-MM-DD, the  *)
(* month in 01..12 and the day in 01..31.  Week dates, ordinal dates, the  *)
(* compact forms and times are not among the inputs of this model.         *)
(***************************************************************************)
isISO8601(str) ==
    LET year == Len(str) >= 4 /\ \A i \in 1..4 : IsDigit(str[i])
        month == Len(str) >= 7 /\ str[5] = "-"
                    /\ TwoDigits(str, 6) \in 1..12
        day == Len(str) = 10 /\ str[8] = "-"
                    /\ TwoDigits(str, 9) \in 1..31
    IN  \/ Len(str) = 4 /\ year
        \/ Len(str) = 7 /\ year /\ month
        \/ Len(str) = 10 /\ year /\ month /\ day

isBoolean(str) ==
    str \in {<<"t","r","u","e">>, <<"f","a","l","s","e">>, <<"1">>, <<"0">>}

isArray(v, min) == v.k = "array" /\ Len(v.a) >= min

RECURSIVE Repeat(_, _)
Repeat(msg, count) == IF count = 0 THEN <<>> ELSE <<msg>> \o Repeat(msg, count - 1)

\* const values = Array.isArray(value) ? value : [value], each as a string.
Strings(v) ==
    LET values == IF v.k = "array" THEN [i \in 1..Len(v.a) |-> Str(v.a[i])] ELSE <<v>>
    IN  [i \in 1..Len(values) |-> toString(values[i])]

\* The errors of one standard validator: results[i] is its verdict on the
\* i-th string, and every FALSE adds the chain's message once.
StandardValidation(results, msg) ==
    Repeat(msg, Cardinality({i \in 1..Len(results) : ~results[i]}))

MinTaskLength == 3
MinDescriptionLength == 10
MinTags == 1
Priorities == << <<"l","o","w">>, <<"m","e","d","i","u","m">>, <<"h","i","g","h">> >>

MsgTask == "Task must be at least 3 characters long"
MsgDescription == "Description must be at least 10 characters long"
MsgPriority == "Priority must be low, medium, or high"
MsgDueDate == "Due date must be a valid date (YYYY-MM-DD)"
MsgTags == "Tags must be an array with at least one tag"
MsgCompleted == "Completed must be true or false"

TaskErrors(body) ==
    LET strs == Strings(body.task)
    IN  StandardValidation([i \in 1..Len(strs) |-> isLength(strs[i], MinTaskLength)],
                           MsgTask)

DescriptionErrors(body) ==
    LET strs == Strings(body.description)
    IN  StandardValidation(
            [i \in 1..Len(strs) |-> isLength(strs[i], MinDescriptionLength)],
            MsgDescription)

PriorityErrors(body) ==
    LET strs == Strings(body.priority)
    IN  StandardValidation([i \in 1..Len(strs) |-> isIn(strs[i], Priorities)],
                           MsgPriority)

DueDateErrors(body) ==
    LET strs == Strings(body.dueDate)
    IN  StandardValidation([i \in 1..Len(strs) |-> isISO8601(strs[i])], MsgDueDate)

TagsErrors(body) ==
    IF isArray(body.tags, MinTags) THEN <<>> ELSE <<MsgTags>>

\* optional(): the chain is skipped when the field is undefined.
CompletedErrors(body) ==
    IF body.completed.k = "undefined" THEN <<>>
    ELSE LET strs == Strings(body.completed)
         IN  StandardValidation([i \in 1..Len(strs) |-> isBoolean(strs[i])],
                                MsgCompleted)

\* The six chains of todoValidation, in the order they are declared.
todoValidation(body) ==
    << TaskErrors(body), DescriptionErrors(body), PriorityErrors(body),
       DueDateErrors(body), TagsErrors(body), CompletedErrors(body) >>

\* validationResult(req).array().map(error => error.msg)
errorMessages(body) ==
    LET chains == todoValidation(body)
    IN  chains[1] \o chains[2] \o chains[3] \o chains[4] \o chains[5] \o chains[6]

(***************************************************************************)
(* The store and its seed records.                                         *)
(***************************************************************************)
Seed1 ==
    [id |-> 1,
     task |-> Str(<<"C","o","m","p","l","e","t","e"," ","p","r","o","j","e","c","t"," ","p","r","o","p","o","s","a","l">>),
     description |-> Str(<<"W","r","i","t","e"," ","a","n","d"," ","s","u","b","m","i","t"," ","t","h","e"," ","f","i","n","a","l"," ","p","r","o","j","e","c","t"," ","p","r","o","p","o","s","a","l"," ","f","o","r"," ","t","h","e"," ","c","l","i","e","n","t">>),
     priority |-> Str(<<"h","i","g","h">>),
     completed |-> Bool(FALSE),
     dueDate |-> Str(<<"2","0","2","4","-","0","1","-","1","5">>),
     tags |-> Arr(<<<<"w","o","r","k">>, <<"u","r","g","e","n","t">>>>)]

Seed2 ==
    [id |-> 2,
     task |-> Str(<<"R","e","v","i","e","w"," ","c","o","d","e"," ","c","h","a","n","g","e","s">>),
     description |-> Str(<<"R","e","v","i","e","w"," ","p","u","l","l"," ","r","e","q","u","e","s","t","s"," ","f","r","o","m"," ","t","e","a","m"," ","m","e","m","b","e","r","s">>),
     priority |-> Str(<<"m","e","d","i","u","m">>),
     completed |-> Bool(TRUE),
     dueDate |-> Str(<<"2","0","2","4","-","0","1","-","1","2">>),
     tags |-> Arr(<<<<"d","e","v","e","l","o","p","m","e","n","t">>, <<"r","e","v","i","e","w">>>>)]

Seed3 ==
    [id |-> 3,
     task |-> Str(<<"U","p","d","a","t","e"," ","d","o","c","u","m","e","n","t","a","t","i","o","n">>),
     description |-> Str(<<"U","p","d","a","t","e"," ","A","P","I"," ","d","o","c","u","m","e","n","t","a","t","i","o","n"," ","w","i","t","h"," ","n","e","w"," ","e","n","d","p","o","i","n","t","s">>),
     priority |-> Str(<<"l","o","w">>),
     completed |-> Bool(FALSE),
     dueDate |-> Str(<<"2","0","2","4","-","0","1","-","2","0">>),
     tags |-> Arr(<<<<"d","o","c","u","m","e","n","t","a","t","i","o","n">>>>)]

Seed4 ==
    [id |-> 4,
     task |-> Str(<<"T","e","a","m"," ","m","e","e","t","i","n","g">>),
     description |-> Str(<<"W","e","e","k","l","y"," ","t","e","a","m"," ","s","t","a","n","d","u","p"," ","m","e","e","t","i","n","g">>),
     priority |-> Str(<<"m","e","d","i","u","m">>),
     completed |-> Bool(FALSE),
     dueDate |-> Str(<<"2","0","2","4","-","0","1","-","1","4">>),
     tags |-> Arr(<<<<"m","e","e","t","i","n","g">>, <<"t","e","a","m">>>>)]
InitialTodos == <<Seed1, Seed2, Seed3, Seed4>>

VARIABLES
    todos,       \* the todos array
    req,         \* the request handled last: method, route, :id and body
    res,         \* the response sent to it
    deletedIds   \* history: the ids of the records removed so far

vars == <<todos, req, res, deletedIds>>

(***************************************************************************)
(* The requests the clients of this model send.                            *)
(***************************************************************************)
NoBody ==
    [task |-> Undefined, description |-> Undefined, priority |-> Undefined,
     dueDate |-> Undefined, tags |-> Undefined, completed |-> Undefined]

ValidBody ==
    [task |-> Str(<<"B","u","y"," ","m","i","l","k"," ","a","n","d"," ","e","g","g","s">>),
     description |-> Str(<<"G","e","t"," ","g","r","o","c","e","r","i","e","s"," ","f","o","r"," ","t","h","e"," ","w","e","e","k">>),
     priority |-> Str(<<"m","e","d","i","u","m">>),
     dueDate |-> Str(<<"2","0","2","4","-","0","2","-","0","1">>),
     tags |-> Arr(<< <<"e","r","r","a","n","d">> >>),
     completed |-> Undefined]

CompletedValues ==
    {Undefined, Bool(TRUE), Bool(FALSE), Str(<<"t","r","u","e">>), Num(1),
     Str(<<"y","e","s">>)}

BadTasks == {Str(<<"a","b">>), Arr(<< <<"a">>, <<"b">> >>)}
BadDescriptions == {Str(<<"T","o","o"," ","s","h","o","r","t">>)}
BadPriorities == {Str(<<"u","r","g","e","n","t">>)}
BadDueDates == {Str(<<"0","2","/","0","1","/","2","0","2","4">>)}
BadTags == {Arr(<<>>)}

\* ValidBody with every value of completed, the bodies that differ from it in
\* one field, and bodies that break several rules at once.
Bodies ==
    {[ValidBody EXCEPT !.completed = c] : c \in CompletedValues}
    \cup {[ValidBody EXCEPT !.task = t] : t \in BadTasks}
    \cup {[ValidBody EXCEPT !.description = d] : d \in BadDescriptions}
    \cup {[ValidBody EXCEPT !.priority = p] : p \in BadPriorities}
    \cup {[ValidBody EXCEPT !.dueDate = d] : d \in BadDueDates}
    \cup {[ValidBody EXCEPT !.tags = t] : t \in BadTags}
    \cup {[ValidBody EXCEPT !.task = t, !.dueDate = d, !.completed = Str(<<"y","e","s">>)] :
            t \in BadTasks, d \in BadDueDates}
    \cup {NoBody}

\* The :id path segments.
ParamIds ==
    { <<"1">>, <<"5">>, <<"a","b","c">>, <<"1","a","b","c">>, <<"1",".","5">> }

NoId == <<>>

Request(method, route, id, body) ==
    [method |-> method, route |-> route, id |-> id, body |-> body]

(***************************************************************************)
(* Responses: the status and the JSON body, whose members are error and    *)
(* messages (failures), message (delete) and body (the records returned).  *)
(***************************************************************************)
Response(status, error, messages, message, body) ==
    [status |-> status, error |-> error, messages |-> messages,
     message |-> message, body |-> body]

Json(status, body) == Response(status, "", <<>>, "", body)

NotFound == Response(404, "Todo not found", <<>>, "", <<>>)

NoResponse == Response(0, "", <<>>, "", <<>>)

(***************************************************************************)
(* handleValidationErrors                                                  *)
(***************************************************************************)
\* validationResult(req) for each body of the model, evaluated once.
validationResult == [body \in Bodies |-> errorMessages(body)]

ValidationFailed(body) == validationResult[body] # <<>>

ValidationResponse(body) ==
    Response(400, "Validation failed", validationResult[body], "", <<>>)

\* if (req.body.completed === undefined) req.body.completed = false
DefaultCompleted(body) ==
    IF body.completed.k = "undefined"
    THEN [body EXCEPT !.completed = Bool(FALSE)]
    ELSE body

(***************************************************************************)
(* Array operations of the handlers.  Indices are 1-based here, and        *)
(* findIndex answers 0 where JavaScript answers -1.                        *)
(***************************************************************************)
Matches(t, todoId) == ~todoId.nan /\ t.id = todoId.n

findIndex(ts, todoId) ==
    IF \E i \in 1..Len(ts) : Matches(ts[i], todoId)
    THEN CHOOSE i \in 1..Len(ts) :
            /\ Matches(ts[i], todoId)
            /\ \A j \in 1..(i - 1) : ~Matches(ts[j], todoId)
    ELSE 0

\* Mutation of push: the record is put first (unshift).
unshift(ts, t) == <<t>> \o ts

push(ts, t) == Append(ts, t)

splice(ts, index) == SubSeq(ts, 1, index - 1) \o SubSeq(ts, index + 1, Len(ts))

(***************************************************************************)
(* Route handlers: the new store and the response.                         *)
(***************************************************************************)
\* parseInt(req.params.id) for each :id of the model, evaluated once.
todoIdOf == [id \in ParamIds |-> parseInt(id)]

Outcome(ts, response) == [todos |-> ts, res |-> response]

GetTodosHandler(ts) == Outcome(ts, Json(200, ts))

GetTodoHandler(ts, id) ==
    LET todoId == todoIdOf[id]
        todoIndex == findIndex(ts, todoId)
    IN  IF todoIndex # 0 THEN Outcome(ts, Json(200, <<ts[todoIndex]>>))
        ELSE Outcome(ts, NotFound)

\* Mutation of NewTodo: completed is taken from the body.
NewTodoKeepsCompleted(ts, body) ==
    [id |-> Len(ts) + 1,
     task |-> body.task,
     description |-> body.description,
     priority |-> body.priority,
     completed |-> body.completed,
     dueDate |-> body.dueDate,
     tags |-> body.tags]

NewTodo(ts, body) ==
    [id |-> Len(ts) + 1,
     task |-> body.task,
     description |-> body.description,
     priority |-> body.priority,
     completed |-> Bool(FALSE),
     dueDate |-> body.dueDate,
     tags |-> body.tags]

PostHandler(ts, body) ==
    LET newTodo == NewTodo(ts, body)
    IN  Outcome(push(ts, newTodo), Json(201, <<newTodo>>))

\* Mutation of UpdatedTodo: completed is reset as on creation.
UpdatedTodoResetsCompleted(todoId, body) ==
    [id |-> todoId.n,
     task |-> body.task,
     description |-> body.description,
     priority |-> body.priority,
     completed |-> Bool(FALSE),
     dueDate |-> body.dueDate,
     tags |-> body.tags]

UpdatedTodo(todoId, body) ==
    [id |-> todoId.n,
     task |-> body.task,
     description |-> body.description,
     priority |-> body.priority,
     completed |-> body.completed,
     dueDate |-> body.dueDate,
     tags |-> body.tags]

PutHandler(ts, id, body) ==
    LET todoId == todoIdOf[id]
        todoIndex == findIndex(ts, todoId)
        updated == [ts EXCEPT ![todoIndex] = UpdatedTodo(todoId, body)]
    IN  IF todoIndex = 0 THEN Outcome(ts, NotFound)
        ELSE Outcome(updated, Json(200, <<updated[todoIndex]>>))

\* Mutation of DeleteHandler: the todoIndex === -1 test is missing, and
\* splice(-1, 1) removes the last record.
DeleteHandlerNoCheck(ts, id) ==
    LET todoId == todoIdOf[id]
        found == findIndex(ts, todoId)
        todoIndex == IF found = 0 THEN Len(ts) ELSE found
    IN  IF ts = <<>> THEN Outcome(ts, Response(200, "", <<>>, "Todo deleted", <<>>))
        ELSE Outcome(splice(ts, todoIndex),
                     Response(200, "", <<>>, "Todo deleted", <<ts[todoIndex]>>))

DeleteHandler(ts, id) ==
    LET todoId == todoIdOf[id]
        todoIndex == findIndex(ts, todoId)
        deletedTodo == ts[todoIndex]
    IN  IF todoIndex = 0 THEN Outcome(ts, NotFound)
        ELSE Outcome(splice(ts, todoIndex),
                     Response(200, "", <<>>, "Todo deleted", <<deletedTodo>>))

\* todoValidation, handleValidationErrors, then the handler.
PostRoute(ts, body) ==
    IF ValidationFailed(body) THEN Outcome(ts, ValidationResponse(body))
    ELSE PostHandler(ts, DefaultCompleted(body))

\* Mutation of PutRoute: the id is looked up before the body is validated.
PutRouteLookupFirst(ts, id, body) ==
    IF findIndex(ts, todoIdOf[id]) = 0 THEN Outcome(ts, NotFound)
    ELSE IF ValidationFailed(body) THEN Outcome(ts, ValidationResponse(body))
    ELSE PutHandler(ts, id, DefaultCompleted(body))

PutRoute(ts, id, body) ==
    IF ValidationFailed(body) THEN Outcome(ts, ValidationResponse(body))
    ELSE PutHandler(ts, id, DefaultCompleted(body))

(***************************************************************************)
(* The state machine: one action per route.                                *)
(***************************************************************************)
Init ==
    /\ todos = InitialTodos
    /\ req = Request("NONE", "", NoId, NoBody)
    /\ res = NoResponse
    /\ deletedIds = {}

GetTodos ==
    LET out == GetTodosHandler(todos)
    IN  /\ req' = Request("GET", "/api/todos", NoId, NoBody)
        /\ res' = out.res
        /\ todos' = out.todos
        /\ UNCHANGED deletedIds

GetTodo ==
    \E id \in ParamIds :
        LET out == GetTodoHandler(todos, id)
        IN  /\ req' = Request("GET", "/api/todos/:id", id, NoBody)
            /\ res' = out.res
            /\ todos' = out.todos
            /\ UNCHANGED deletedIds

PostTodo ==
    \E body \in Bodies :
        LET out == PostRoute(todos, body)
        IN  /\ Len(todos) < MaxTodos
            /\ req' = Request("POST", "/api/todos", NoId, body)
            /\ res' = out.res
            /\ todos' = out.todos
            /\ UNCHANGED deletedIds

PutTodo ==
    \E id \in ParamIds, body \in Bodies :
        LET out == PutRoute(todos, id, body)
        IN  /\ req' = Request("PUT", "/api/todos/:id", id, body)
            /\ res' = out.res
            /\ todos' = out.todos
            /\ UNCHANGED deletedIds

DeleteTodo ==
    \E id \in ParamIds :
        LET out == DeleteHandler(todos, id)
        IN  /\ req' = Request("DELETE", "/api/todos/:id", id, NoBody)
            /\ res' = out.res
            /\ todos' = out.todos
            /\ deletedIds' = IF out.res.status = 200
                             THEN deletedIds \cup {out.res.body[1].id}
                             ELSE deletedIds

Next == GetTodos \/ GetTodo \/ PostTodo \/ PutTodo \/ DeleteTodo

Spec == Init /\ [][Next]_vars


(***************************************************************************)
(* Properties.  A step's request and response are req' and res'; the store *)
(* before the step is todos and after it todos'.                           *)
(***************************************************************************)
ItemRoute == "/api/todos/:id"

Present(ts, id) == \E i \in 1..Len(ts) : Matches(ts[i], todoIdOf[id])

\* The position of the first record of ts that the :id selects.
FirstMatch(ts, id) ==
    CHOOSE i \in 1..Len(ts) :
        /\ Matches(ts[i], todoIdOf[id])
        /\ \A j \in 1..(i - 1) : ~Matches(ts[j], todoIdOf[id])

PassesValidation(body) == validationResult[body] = <<>>

Without(ts, i) == [j \in 1..(Len(ts) - 1) |-> IF j < i THEN ts[j] ELSE ts[j + 1]]

\* C1: no two records of the store have the same id, and no record of the
\* store carries an id that a deleted record held.
C1_UniqueIdsNeverReused ==
    /\ \A i, j \in 1..Len(todos) : i # j => todos[i].id # todos[j].id
    /\ \A i \in 1..Len(todos) : todos[i].id \notin deletedIds

\* C2: a POST whose body passes validation answers 201 with a record whose id
\* is the number of records before the call plus one; the record is the last
\* element of the store and the records before it are the earlier store.
C2_PostAppends ==
    [][(req'.method = "POST" /\ PassesValidation(req'.body)) =>
        /\ res'.status = 201
        /\ Len(res'.body) = 1
        /\ res'.body[1].id = Len(todos) + 1
        /\ Len(todos') = Len(todos) + 1
        /\ todos'[Len(todos')] = res'.body[1]
        /\ SubSeq(todos', 1, Len(todos)) = todos]_vars

\* A valid POST has created the record with id 5 as the fifth record.
C2_Witness ==
    /\ req.method = "POST"
    /\ res.status = 201
    /\ res.body[1].id = 5
    /\ Len(todos) = 5
    /\ todos[5] = res.body[1]

\* C3: after a valid POST the record returned, which GET /api/todos then
\* lists, has the body's task, description, priority, dueDate and tags, and
\* completed false whatever the body said.
C3_PostFields ==
    [][(req'.method = "POST" /\ PassesValidation(req'.body)) =>
        LET created == res'.body[1]
            list == GetTodosHandler(todos').res
        IN  /\ res'.status = 201
            /\ created.task = req'.body.task
            /\ created.description = req'.body.description
            /\ created.priority = req'.body.priority
            /\ created.dueDate = req'.body.dueDate
            /\ created.tags = req'.body.tags
            /\ created.completed = Bool(FALSE)
            /\ list.status = 200
            /\ list.body # <<>>
            /\ list.body[Len(list.body)] = created]_vars

\* A valid POST whose body said completed: true has been answered.
C3_Witness ==
    /\ req.method = "POST"
    /\ res.status = 201
    /\ req.body.completed = Bool(TRUE)
    /\ todos[Len(todos)].completed = Bool(FALSE)

\* C4: a valid PUT on an id of the store answers 200 and replaces the matching
\* record in place, with the same id and the body's fields (completed false
\* when the body omits it); nothing else changes, and GET on the id returns
\* the new record.
C4_PutReplaces ==
    [][(req'.method = "PUT" /\ PassesValidation(req'.body) /\ Present(todos, req'.id)) =>
        LET i == FirstMatch(todos, req'.id)
            body == req'.body
            new == todos'[i]
        IN  /\ res' = Json(200, <<new>>)
            /\ Len(todos') = Len(todos)
            /\ \A j \in 1..Len(todos) : j # i => todos'[j] = todos[j]
            /\ new.id = todos[i].id
            /\ new.task = body.task
            /\ new.description = body.description
            /\ new.priority = body.priority
            /\ new.dueDate = body.dueDate
            /\ new.tags = body.tags
            /\ new.completed = IF body.completed = Undefined THEN Bool(FALSE)
                               ELSE body.completed
            /\ GetTodoHandler(todos', req'.id).res = Json(200, <<new>>)]_vars

\* A valid PUT has replaced a record by the body's values, completed: true.
C4_Witness ==
    /\ req.method = "PUT"
    /\ res.status = 200
    /\ req.body.completed = Bool(TRUE)
    /\ \E i \in 1..Len(todos) :
        /\ todos[i] = res.body[1]
        /\ todos[i].completed = Bool(TRUE)
        /\ todos[i].task = req.body.task

\* C5: DELETE on an id of the store answers 200 with the record as it was;
\* afterwards no record has that id, GET on the id answers 404, and the other
\* records keep their values and order.
C5_DeleteRemoves ==
    [][(req'.method = "DELETE" /\ Present(todos, req'.id)) =>
        LET i == FirstMatch(todos, req'.id)
            removed == todos[i]
        IN  /\ res' = Response(200, "", <<>>, "Todo deleted", <<removed>>)
            /\ \A j \in 1..Len(todos') : todos'[j].id # removed.id
            /\ GetTodoHandler(todos', req'.id).res = NotFound
            /\ todos' = Without(todos, i)]_vars

\* C6 as stated: GET, PUT and DELETE on an id that matches no record answer
\* 404 {error: 'Todo not found'} and leave the store unchanged.
C6_Original ==
    [][(req'.route = ItemRoute /\ ~Present(todos, req'.id)) =>
        /\ res' = NotFound
        /\ todos' = todos]_vars

\* C6 amended: GET and DELETE on an id that matches no record, and PUT on
\* such an id with a body that passes validation, answer 404 {error: 'Todo
\* not found'}; a PUT whose body fails validation answers 400; the store is
\* unchanged in every case.
C6_NotFound ==
    [][(req'.route = ItemRoute /\ ~Present(todos, req'.id)) =>
        /\ todos' = todos
        /\ IF req'.method = "PUT" /\ ~PassesValidation(req'.body)
           THEN res'.status = 400
           ELSE res' = NotFound]_vars

\* DELETE on an id that a record held before has been answered 404.
C6_Witness ==
    /\ req.method = "DELETE"
    /\ res = NotFound
    /\ ~todoIdOf[req.id].nan
    /\ todoIdOf[req.id].n \in deletedIds
    /\ ~Present(todos, req.id)

\* C7: the answer to a POST or PUT is 400 {error: 'Validation failed',
\* messages} with one message per failed rule, in the order task,
\* description, priority, dueDate, tags, completed, when a rule fails, and is
\* no 400 when none fails.
RuleMessages ==
    <<MsgTask, MsgDescription, MsgPriority, MsgDueDate, MsgTags, MsgCompleted>>

RECURSIVE FailedRules(_, _)
FailedRules(chains, i) ==
    IF i > Len(chains) THEN <<>>
    ELSE (IF chains[i] # <<>> THEN <<RuleMessages[i]>> ELSE <<>>)
            \o FailedRules(chains, i + 1)

C7_OneMessagePerFailedRule ==
    req.method \in {"POST", "PUT"} =>
        LET failed == FailedRules(todoValidation(req.body), 1)
        IN  IF failed # <<>>
            THEN res = Response(400, "Validation failed", failed, "", <<>>)
            ELSE res.status # 400

\* C8: when the body of a POST or PUT fails validation the store is left as
\* it was and the response is the 400, also for a PUT whose id matches no
\* record.
C8_InvalidBodyNoEffect ==
    [][(req'.method \in {"POST", "PUT"} /\ ~PassesValidation(req'.body)) =>
        /\ todos' = todos
        /\ res'.status = 400
        /\ res'.error = "Validation failed"
        /\ res'.body = <<>>]_vars

\* A PUT with a failing body on an id that matches no record was answered 400.
C8_Witness ==
    /\ req.method = "PUT"
    /\ ~PassesValidation(req.body)
    /\ ~Present(todos, req.id)
    /\ res.status = 400

\* C9: on the :id routes (PUT with a valid body) an :id that is not a pure
\* decimal integer answers 404 {error: 'Todo not found'} and changes nothing.
IsDecimalInteger(id) == id # <<>> /\ \A i \in 1..Len(id) : IsDigit(id[i])

C9_MalformedIdNotFound ==
    [][(/\ req'.route = ItemRoute
        /\ ~IsDecimalInteger(req'.id)
        /\ (req'.method = "PUT" => PassesValidation(req'.body))) =>
        /\ res' = NotFound
        /\ todos' = todos]_vars

\* C10: every record of the store conforms to the data model.
Conforms(t) ==
    /\ t.id \in Int
    /\ t.task.k = "string" /\ Len(t.task.s) >= MinTaskLength
    /\ t.description.k = "string" /\ Len(t.description.s) >= MinDescriptionLength
    /\ t.priority.k = "string" /\ isIn(t.priority.s, Priorities)
    /\ t.completed.k = "boolean"
    /\ t.dueDate.k = "string" /\ isISO8601(t.dueDate.s)
    /\ t.tags.k = "array" /\ t.tags.a # <<>>

C10_RecordsConform == \A i \in 1..Len(todos) : Conforms(todos[i])

====
